---- MODULE Spec2Model ----
(***************************************************************************)
(* Model of the anagram Turing machine of src/turing_machine.py.           *)
(*                                                                         *)
(* An engine is a record holding the fields of a TuringMachine object.     *)
(* The tape is a sequence of one-character strings; Python's 0-based index *)
(* h is cell h + 1 of the sequence.  The methods of the class are          *)
(* operators from engine to engine; the drivers (a caller invoking step(), *)
(* run(), move() or write()) are the actions.  run() is a loop around      *)
(* step(): its position is the variable pc and its locals are max_steps    *)
(* and step_count.                                                         *)
(*                                                                         *)
(* The graphical driver of src/simulator_ui.py is the record gui: its      *)
(* timer, its buttons and its text fields.  Its event handlers are         *)
(* operators on a session (the window with the machine it owns) and each   *)
(* handled event is one action.                                            *)
(***************************************************************************)
EXTENDS Integers, Sequences, FiniteSets, TLC

VARIABLES
    input,        \* the string handed to the constructor
    tm,           \* the engine under test
    twin,         \* a second engine constructed from the same input
    pc,           \* position of run(): "idle", "loop" (line 128) or "returned"
    max_steps,    \* local of run(), line 125
    step_count,   \* local of run(), line 126
    result,       \* the dict returned by run(): whether it returned, 'accepted'
    stepped,      \* history: the driver called step() directly on tm
    runs,         \* history: number of run() calls on tm
    moves,        \* history: number of move() calls made by the driver
    writes,       \* history: number of write() calls made by the driver
    observed,     \* what the driver's inspections returned since the last
                  \* call that may change the engine; <<>> when there is none
    gui           \* the window of simulator_ui.py: timer, buttons, text fields

vars == <<input, tm, twin, pc, max_steps, step_count, result,
          stepped, runs, moves, writes, observed, gui>>

----------------------------------------------------------------------------
(* Bounds of the model. *)

MaxLen == 2        \* longest half of an enumerated input
MaxRep == 4        \* longest half of an enumerated repeated-character input
MaxNoSep == 12     \* longest enumerated input without separator
MaxRuns == 1       \* run() calls per behaviour
MaxMoves == 6      \* move() calls made by the driver per behaviour
MaxWrites == 1     \* write() calls made by the driver per behaviour
MaxInspections == 2  \* consecutive inspections the driver makes

----------------------------------------------------------------------------
(* Program constants. *)

padding_left == 5
min_padding_right == 20
start_position == 5
far_past_start == 15
near_beginning == 10
grow_margin == 10
grow_block == 100
step_cap == 100000
step_factor == 10
NoPosition == -1          \* separator_position = None
NoChar == "unset"         \* original_char before its first assignment

Sigma == {"a", "b", "X"}  \* payload letters used by the enumerated inputs
Alphabet == Sigma \cup {"c", "d", "_", "#", "$", "*"}

----------------------------------------------------------------------------
(* Helpers on sequences. *)

Max(a, b) == IF a >= b THEN a ELSE b
Min(a, b) == IF a <= b THEN a ELSE b

Rep(c, n) == [i \in 1..n |-> c]

StrsUpTo(n) == UNION {[1..k -> Sigma] : k \in 0..n}

Count(s, c) == Cardinality({i \in 1..Len(s) : s[i] = c})

(* input_string.split('#'): the maximal '#'-free pieces, in order. *)
RECURSIVE split(_)
split(s) ==
    IF \A i \in 1..Len(s) : s[i] # "#"
    THEN <<s>>
    ELSE LET k == CHOOSE i \in 1..Len(s) :
                      s[i] = "#" /\ \A j \in 1..(i - 1) : s[j] # "#"
         IN  <<SubSeq(s, 1, k - 1)>> \o split(SubSeq(s, k + 1, Len(s)))

----------------------------------------------------------------------------
(* The methods of TuringMachine. *)

read(m) == m.tape[m.head_position + 1]

write(m, symbol) == [m EXCEPT !.tape[m.head_position + 1] = symbol]

(* move() without the clamp at the left end. *)
move_unclamped(m, direction) ==
    IF direction = "L"
    THEN [m EXCEPT !.head_position = m.head_position - 1]
    ELSE IF direction = "R"
    THEN LET h == m.head_position + 1 IN
         IF h >= Len(m.tape) - grow_margin
         THEN [m EXCEPT !.head_position = h,
                        !.tape = m.tape \o Rep("_", grow_block)]
         ELSE [m EXCEPT !.head_position = h]
    ELSE m

(* move() growing the tape one cell too late. *)
move_late_growth(m, direction) ==
    IF direction = "L"
    THEN [m EXCEPT !.head_position =
                 IF m.head_position - 1 < 0 THEN 0 ELSE m.head_position - 1]
    ELSE IF direction = "R"
    THEN LET h == m.head_position + 1 IN
         IF h > Len(m.tape) - grow_margin
         THEN [m EXCEPT !.head_position = h,
                        !.tape = m.tape \o Rep("_", grow_block)]
         ELSE [m EXCEPT !.head_position = h]
    ELSE m

(* The tape growing as soon as the head is within the minimum right     *)
(* padding of the end.                                                   *)
move_wide_margin(m, direction) ==
    IF direction = "L"
    THEN [m EXCEPT !.head_position =
                 IF m.head_position - 1 < 0 THEN 0 ELSE m.head_position - 1]
    ELSE IF direction = "R"
    THEN LET h == m.head_position + 1 IN
         IF h >= Len(m.tape) - min_padding_right
         THEN [m EXCEPT !.head_position = h,
                        !.tape = m.tape \o Rep("_", grow_block)]
         ELSE [m EXCEPT !.head_position = h]
    ELSE m

(* lines 62-78 *)
move(m, direction) ==
    IF direction = "L"
    THEN [m EXCEPT !.head_position =
                 IF m.head_position - 1 < 0 THEN 0 ELSE m.head_position - 1]
    ELSE IF direction = "R"
    THEN LET h == m.head_position + 1 IN
         IF h >= Len(m.tape) - grow_margin
         THEN [m EXCEPT !.head_position = h,
                        !.tape = m.tape \o Rep("_", grow_block)]
         ELSE [m EXCEPT !.head_position = h]
    ELSE m

goto_separator_ok(m) == m.separator_position # NoPosition

goto_separator(m) ==
    IF m.separator_position # NoPosition
    THEN [m EXCEPT !.head_position = m.separator_position]
    ELSE m

goto_start(m) == [m EXCEPT !.head_position = start_position]

(* One call of log_step appends one group: the state line, the tape line, *)
(* the head line (and a rule).                                            *)
log_step(m, description) ==
    [m EXCEPT !.steps_log = Append(m.steps_log,
        [state |-> m.state, description |-> description,
         tape |-> m.tape, head |-> m.head_position])]

(* The construction with a right padding of 20 whatever the input. *)
initial_engine_fixed_padding(input_string) ==
    [tape |-> Rep("_", padding_left) \o input_string
                \o Rep("_", min_padding_right),
     head_position |-> padding_left,
     state |-> "scan to separator",
     steps_log |-> <<>>,
     separator_position |-> NoPosition,
     original_char |-> NoChar]

(* __init__, lines 16-28: the general construction. *)
initial_engine(input_string) ==
    LET input_length == Len(input_string)
        padding_right == Max(min_padding_right, input_length)
    IN  [tape |-> Rep("_", padding_left) \o input_string
                    \o Rep("_", padding_right),
         head_position |-> padding_left,
         state |-> "scan to separator",
         steps_log |-> <<>>,
         separator_position |-> NoPosition,
         original_char |-> NoChar]

is_single_char(p) == \A i \in 1..Len(p) : p[i] = p[1]

(* The shortcut without the comparison of the two repeated characters. *)
fast_path_any_pair(m, input_string) ==
    IF Count(input_string, "#") > 0
    THEN LET parts == split(input_string) IN
         IF Len(parts) = 2
               /\ Len(parts[1]) > 0 /\ Len(parts[2]) > 0
               /\ is_single_char(parts[1]) /\ is_single_char(parts[2])
         THEN IF Len(parts[1]) = Len(parts[2])
              THEN log_step([m EXCEPT !.state = "accept"],
                       <<"Optimization: Detected matching repeated character strings of equal length">>)
              ELSE log_step([m EXCEPT !.state = "reject"],
                       <<"Optimization: Detected repeated character strings of unequal length">>)
         ELSE m
    ELSE m

(* __init__, lines 30-47: the repeated-character shortcut. *)
fast_path(m, input_string) ==
    IF Count(input_string, "#") > 0
    THEN LET parts == split(input_string) IN
         IF Len(parts) = 2
               /\ Len(parts[1]) > 0 /\ Len(parts[2]) > 0
               /\ is_single_char(parts[1]) /\ is_single_char(parts[2])
               /\ parts[1][1] = parts[2][1]
         THEN IF Len(parts[1]) = Len(parts[2])
              THEN log_step([m EXCEPT !.state = "accept"],
                       <<"Optimization: Detected matching repeated character strings of equal length">>)
              ELSE log_step([m EXCEPT !.state = "reject"],
                       <<"Optimization: Detected repeated character strings of unequal length">>)
         ELSE m
    ELSE m

TuringMachine(input_string) ==
    fast_path(initial_engine(input_string), input_string)

----------------------------------------------------------------------------
(* step(), one branch of the state dispatch per operator. *)

(* The scan rejecting on the first blank, wherever the head is. *)
scan_to_separator_any_blank(m, symbol) ==
    IF symbol = "#"
    THEN LET logged == log_step(m, <<"Found separator, starting anagram check">>)
             marked == write(logged, "$")
             noted  == [marked EXCEPT !.separator_position = marked.head_position]
         IN  goto_start([noted EXCEPT !.state = "find first char"])
    ELSE IF symbol = "_"
    THEN log_step([m EXCEPT !.state = "reject"],
             <<"Reached end of tape without finding separator - ensure input has a # separator">>)
    ELSE move(m, "R")

(* The scan remembering the head position only after the jump to the start. *)
scan_to_separator_late_note(m, symbol) ==
    IF symbol = "#"
    THEN LET logged == log_step(m, <<"Found separator, starting anagram check">>)
             marked == write(logged, "$")
             jumped == goto_start([marked EXCEPT !.state = "find first char"])
         IN  [jumped EXCEPT !.separator_position = jumped.head_position]
    ELSE IF symbol = "_"
    THEN IF m.head_position >= far_past_start
         THEN log_step([m EXCEPT !.state = "reject"],
                  <<"Reached end of tape without finding separator - ensure input has a # separator">>)
         ELSE move(m, "R")
    ELSE move(m, "R")

(* The scan marking the separator only after it has gone to the start. *)
scan_to_separator_write_after_jump(m, symbol) ==
    IF symbol = "#"
    THEN LET logged == log_step(m, <<"Found separator, starting anagram check">>)
             noted  == [logged EXCEPT !.separator_position = logged.head_position]
         IN  write(goto_start([noted EXCEPT !.state = "find first char"]), "$")
    ELSE IF symbol = "_"
    THEN IF m.head_position >= far_past_start
         THEN log_step([m EXCEPT !.state = "reject"],
                  <<"Reached end of tape without finding separator - ensure input has a # separator">>)
         ELSE move(m, "R")
    ELSE move(m, "R")

(* lines 151-169 *)
scan_to_separator(m, symbol) ==
    IF symbol = "#"
    THEN LET logged == log_step(m, <<"Found separator, starting anagram check">>)
             marked == write(logged, "$")
             noted  == [marked EXCEPT !.separator_position = marked.head_position]
         IN  goto_start([noted EXCEPT !.state = "find first char"])
    ELSE IF symbol = "_"
    THEN IF m.head_position >= far_past_start
         THEN log_step([m EXCEPT !.state = "reject"],
                  <<"Reached end of tape without finding separator - ensure input has a # separator">>)
         ELSE move(m, "R")
    ELSE move(m, "R")

(* lines 183-184 and 200-203: while read() is neither '$' nor '_', move R *)
RECURSIVE seek_separator_or_blank(_)
seek_separator_or_blank(m) ==
    IF read(m) # "$" /\ read(m) # "_"
    THEN seek_separator_or_blank(move(m, "R"))
    ELSE m

(* lines 225-231: while read() != '$': move R, reject on a blank *)
RECURSIVE scan_for_separator(_)
scan_for_separator(m) ==
    IF read(m) # "$"
    THEN LET moved == move(m, "R") IN
         IF read(moved) = "_"
         THEN log_step([moved EXCEPT !.state = "reject"],
                  <<"Reached end of tape while looking for separator">>)
         ELSE scan_for_separator(moved)
    ELSE m

(* lines 236-242: move to the second string and start matching *)
start_matching(m, current_char) ==
    LET moved == move(m, "R")
    IN  log_step([moved EXCEPT !.state = "find match",
                               !.original_char = current_char],
            <<"Looking for match for", current_char, "in second string">>)

(* The pivot left unmarked in string 1. *)
process_character_unmarked(m, symbol) ==
    LET current_char == symbol
        marked == log_step(m,
                      <<"Processing character", current_char, "from first string">>)
    IN  IF goto_separator_ok(marked)
        THEN start_matching(goto_separator(marked), current_char)
        ELSE LET found == scan_for_separator(marked) IN
             IF found.state = "reject"
             THEN found
             ELSE start_matching(
                      [found EXCEPT !.separator_position = found.head_position],
                      current_char)

(* lines 213-242 *)
process_character(m, symbol) ==
    LET current_char == symbol
        marked == log_step(write(m, "*"),
                      <<"Processing character", current_char, "from first string">>)
    IN  IF goto_separator_ok(marked)
        THEN start_matching(goto_separator(marked), current_char)
        ELSE LET found == scan_for_separator(marked) IN
             IF found.state = "reject"
             THEN found
             ELSE start_matching(
                      [found EXCEPT !.separator_position = found.head_position],
                      current_char)

(* lines 179-212 *)
first_char_blank(m) ==
    IF m.head_position < near_beginning
    THEN LET sought == seek_separator_or_blank(m) IN
         IF read(sought) = "$"
         THEN log_step(move([sought EXCEPT !.state = "check second string"], "R"),
                  <<"First string is empty, checking second string">>)
         ELSE log_step([sought EXCEPT !.state = "reject"],
                  <<"Unexpected end of first string without finding separator">>)
    ELSE LET sought == seek_separator_or_blank(m) IN
         IF read(sought) = "$"
         THEN move([sought EXCEPT !.state = "check second string"], "R")
         ELSE log_step([sought EXCEPT !.state = "reject"],
                  <<"Could not find separator after first string">>)

(* The pivot search passing over unprocessed letters as it does over '*'. *)
find_first_char_skipping(m, symbol) ==
    IF symbol = "$"
    THEN log_step(move([m EXCEPT !.state = "check second string"], "R"),
             <<"First string fully processed, checking second string">>)
    ELSE IF symbol = "_"
    THEN first_char_blank(m)
    ELSE move(m, "R")

(* lines 171-242 *)
find_first_char(m, symbol) ==
    IF symbol = "$"
    THEN log_step(move([m EXCEPT !.state = "check second string"], "R"),
             <<"First string fully processed, checking second string">>)
    ELSE IF symbol = "*"
    THEN move(m, "R")
    ELSE IF symbol = "_"
    THEN first_char_blank(m)
    ELSE process_character(m, symbol)

(* The matching state resuming the pivot search where the match was found. *)
find_match_no_return(m, symbol) ==
    IF symbol = "_"
    THEN log_step([m EXCEPT !.state = "reject"],
             <<"No match found for", m.original_char>>)
    ELSE IF symbol = "X"
    THEN move(m, "R")
    ELSE IF symbol = m.original_char
    THEN LET marked == log_step(write(m, "X"),
                           <<"Found match for", m.original_char>>)
         IN  [marked EXCEPT !.state = "find first char"]
    ELSE move(m, "R")

(* The matching state stepping back, not forward, from a matched cell. *)
find_match_backing_off(m, symbol) ==
    IF symbol = "_"
    THEN log_step([m EXCEPT !.state = "reject"],
             <<"No match found for", m.original_char>>)
    ELSE IF symbol = "X"
    THEN move(m, "L")
    ELSE IF symbol = m.original_char
    THEN LET marked == log_step(write(m, "X"),
                           <<"Found match for", m.original_char>>)
         IN  goto_start([marked EXCEPT !.state = "find first char"])
    ELSE move(m, "R")

(* The matching state marking the matched cell with a lowercase 'x'. *)
find_match_lowercase_mark(m, symbol) ==
    IF symbol = "_"
    THEN log_step([m EXCEPT !.state = "reject"],
             <<"No match found for", m.original_char>>)
    ELSE IF symbol = "X"
    THEN move(m, "R")
    ELSE IF symbol = m.original_char
    THEN LET marked == log_step(write(m, "x"),
                           <<"Found match for", m.original_char>>)
         IN  goto_start([marked EXCEPT !.state = "find first char"])
    ELSE move(m, "R")

(* The matching state without the 'X' mark on the matched cell. *)
find_match_unmarked(m, symbol) ==
    IF symbol = "_"
    THEN log_step([m EXCEPT !.state = "reject"],
             <<"No match found for", m.original_char>>)
    ELSE IF symbol = "X"
    THEN move(m, "R")
    ELSE IF symbol = m.original_char
    THEN LET marked == log_step(m, <<"Found match for", m.original_char>>)
         IN  goto_start([marked EXCEPT !.state = "find first char"])
    ELSE move(m, "R")

(* lines 244-261 *)
find_match(m, symbol) ==
    IF symbol = "_"
    THEN log_step([m EXCEPT !.state = "reject"],
             <<"No match found for", m.original_char>>)
    ELSE IF symbol = "X"
    THEN move(m, "R")
    ELSE IF symbol = m.original_char
    THEN LET marked == log_step(write(m, "X"),
                           <<"Found match for", m.original_char>>)
         IN  goto_start([marked EXCEPT !.state = "find first char"])
    ELSE move(m, "R")

(* The final check erasing the marks it passes over. *)
check_second_string_erasing(m, symbol) ==
    IF symbol = "X"
    THEN move(write(m, "_"), "R")
    ELSE IF symbol = "_"
    THEN log_step([m EXCEPT !.state = "accept"],
             <<"All characters matched, strings are anagrams!">>)
    ELSE log_step([m EXCEPT !.state = "reject"],
             <<"Found unmatched character", symbol, "in second string">>)

(* The final check logging its verdict before it sets the state. *)
check_second_string_log_first(m, symbol) ==
    IF symbol = "X"
    THEN move(m, "R")
    ELSE IF symbol = "_"
    THEN [log_step(m, <<"All characters matched, strings are anagrams!">>)
             EXCEPT !.state = "accept"]
    ELSE [log_step(m, <<"Found unmatched character", symbol, "in second string">>)
             EXCEPT !.state = "reject"]

(* lines 263-273 *)
check_second_string(m, symbol) ==
    IF symbol = "X"
    THEN move(m, "R")
    ELSE IF symbol = "_"
    THEN log_step([m EXCEPT !.state = "accept"],
             <<"All characters matched, strings are anagrams!">>)
    ELSE log_step([m EXCEPT !.state = "reject"],
             <<"Found unmatched character", symbol, "in second string">>)

(* step() with a default branch that moves the head of a halted engine. *)
step_moving_when_halted(m) ==
    LET symbol == read(m) IN
    IF m.state = "scan to separator" THEN scan_to_separator(m, symbol)
    ELSE IF m.state = "find first char" THEN find_first_char(m, symbol)
    ELSE IF m.state = "find match" THEN find_match(m, symbol)
    ELSE IF m.state = "check second string" THEN check_second_string(m, symbol)
    ELSE move(m, "R")

(* lines 142-275; in accept and reject no branch is taken *)
step(m) ==
    LET symbol == read(m) IN
    IF m.state = "scan to separator" THEN scan_to_separator(m, symbol)
    ELSE IF m.state = "find first char" THEN find_first_char(m, symbol)
    ELSE IF m.state = "find match" THEN find_match(m, symbol)
    ELSE IF m.state = "check second string" THEN check_second_string(m, symbol)
    ELSE m

terminal(m) == m.state \in {"accept", "reject"}

(* step(), line 275: the value returned to the caller *)
step_result(m) == step(m).head_position

(* run(), line 125 *)
step_budget(m) == Min(step_cap, Len(m.tape) * step_factor)

(* The loop condition letting one step too many through. *)
run_continues_off_by_one(m, count, budget) == ~terminal(m) /\ count <= budget

(* run(), line 128: the loop condition *)
run_continues(m, count, budget) == ~terminal(m) /\ count < budget

(* run(), lines 133-135: the guard applied when the loop is left *)
budget_guard(m, count, budget) ==
    IF count >= budget
    THEN log_step([m EXCEPT !.state = "reject"],
             <<"Exceeded maximum steps - potential infinite loop detected">>)
    ELSE m

----------------------------------------------------------------------------
(* The window of src/simulator_ui.py.  A session is the window together   *)
(* with the machine it owns and the string that machine was built from;   *)
(* the handlers are operators on sessions.                                *)

default_speed == 1000
default_slider == 5
speed_base == 2100
speed_scale == 100

(* str.replace('_', ' ').title() on the six control states *)
title(state) ==
    CASE state = "scan to separator"   -> "Scan To Separator"
      [] state = "find first char"     -> "Find First Char"
      [] state = "find match"          -> "Find Match"
      [] state = "check second string" -> "Check Second String"
      [] state = "accept"              -> "Accept"
      [] state = "reject"              -> "Reject"

(* simulator_ui.py lines 119-131 and 224-230: the window after __init__;  *)
(* the text fields are taken from the tape when it holds a '#'.           *)
TuringMachineSimulator(tape_string) ==
    LET parts == split(tape_string) IN
    [timer_active  |-> FALSE,
     interval      |-> 0,
     auto_speed    |-> default_speed,
     slider        |-> default_slider,
     auto_checked  |-> FALSE,
     auto_text     |-> "Auto Run",
     step_enabled  |-> TRUE,
     reset_enabled |-> TRUE,
     load_enabled  |-> TRUE,
     string1       |-> IF Len(parts) >= 2 THEN parts[1] ELSE <<>>,
     string2       |-> IF Len(parts) >= 2 THEN parts[2] ELSE <<>>,
     verdict_shown |-> "none",
     returned      |-> <<>>,
     invoked_step  |-> FALSE,
     event         |-> "none"]

(* History of the latest handled event: which one it was, whether it      *)
(* called machine.step() and what do_step() returned to it.               *)
event_start(w, name) ==
    [w EXCEPT !.event = name, !.invoked_step = FALSE, !.returned = <<>>]

(* toggle_auto() leaving the reset button enabled while the timer runs. *)
toggle_auto_reset_enabled(w) ==
    IF w.auto_checked
    THEN [w EXCEPT !.timer_active = TRUE, !.interval = w.auto_speed,
                   !.auto_text = "Stop",
                   !.step_enabled = FALSE, !.load_enabled = FALSE]
    ELSE [w EXCEPT !.timer_active = FALSE,
                   !.auto_text = "Auto Run",
                   !.step_enabled = TRUE, !.reset_enabled = TRUE,
                   !.load_enabled = TRUE]

(* simulator_ui.py lines 538-551 *)
toggle_auto(w) ==
    IF w.auto_checked
    THEN [w EXCEPT !.timer_active = TRUE, !.interval = w.auto_speed,
                   !.auto_text = "Stop",
                   !.step_enabled = FALSE, !.reset_enabled = FALSE,
                   !.load_enabled = FALSE]
    ELSE [w EXCEPT !.timer_active = FALSE,
                   !.auto_text = "Auto Run",
                   !.step_enabled = TRUE, !.reset_enabled = TRUE,
                   !.load_enabled = TRUE]

(* simulator_ui.py lines 509-512 and 516-519: stop the auto-run if active *)
stop_auto_run(w) ==
    IF w.timer_active
    THEN toggle_auto([w EXCEPT !.timer_active = FALSE, !.auto_checked = FALSE])
    ELSE w

(* do_step() comparing the machine's own state name with the verdicts. *)
do_step_raw_state(g) ==
    LET machine == step(g.machine)
        new_state == machine.state
        called == [g.window EXCEPT !.invoked_step = TRUE]
        shown == IF new_state = "accept"
                 THEN stop_auto_run([called EXCEPT !.verdict_shown = "accept"])
                 ELSE IF new_state = "reject"
                 THEN stop_auto_run([called EXCEPT !.verdict_shown = "reject"])
                 ELSE [called EXCEPT !.verdict_shown = "none"]
    IN  [g EXCEPT !.window = [shown EXCEPT !.returned =
                                 <<new_state \notin {"accept", "reject"}>>],
                  !.machine = machine]

(* simulator_ui.py lines 469-522 *)
do_step(g) ==
    LET machine == step(g.machine)
        new_state == title(machine.state)
        called == [g.window EXCEPT !.invoked_step = TRUE]
        shown == IF new_state = "accept"
                 THEN stop_auto_run([called EXCEPT !.verdict_shown = "accept"])
                 ELSE IF new_state = "reject"
                 THEN stop_auto_run([called EXCEPT !.verdict_shown = "reject"])
                 ELSE [called EXCEPT !.verdict_shown = "none"]
    IN  [g EXCEPT !.window = [shown EXCEPT !.returned =
                                 <<new_state \notin {"accept", "reject"}>>],
                  !.machine = machine]

(* auto_step() without the test for a machine that has already halted. *)
auto_step_unguarded(g) ==
    LET done == do_step(g) IN
    IF done.window.returned = <<FALSE>>
    THEN [done EXCEPT !.window =
                 toggle_auto([done.window EXCEPT !.auto_checked = FALSE])]
    ELSE done

(* simulator_ui.py lines 524-536 *)
auto_step(g) ==
    IF terminal(g.machine)
    THEN [g EXCEPT !.window =
                 toggle_auto([g.window EXCEPT !.timer_active = FALSE,
                                              !.auto_checked = FALSE])]
    ELSE LET done == do_step(g) IN
         IF done.window.returned = <<FALSE>>
         THEN [done EXCEPT !.window =
                      toggle_auto([done.window EXCEPT !.auto_checked = FALSE])]
         ELSE done

(* simulator_ui.py lines 553-559; QTimer.setInterval does not start an   *)
(* inactive timer.                                                        *)
update_speed(w, speed_value) ==
    LET speed == speed_base - speed_value * speed_scale IN
    [w EXCEPT !.slider = speed_value, !.auto_speed = speed, !.interval = speed]

(* simulator_ui.py lines 569-604; new_input is <<>> when none is given *)
reset_machine(g, new_input) ==
    LET w == g.window
        stopped == IF w.timer_active
                   THEN toggle_auto([w EXCEPT !.auto_checked = FALSE])
                   ELSE w
        tape_string == IF new_input # <<>>
                       THEN new_input
                       ELSE w.string1 \o <<"#">> \o w.string2
    IN  [g EXCEPT !.window = [stopped EXCEPT !.verdict_shown = "none"],
                  !.machine = TuringMachine(tape_string),
                  !.tape_string = tape_string]

(* simulator_ui.py lines 561-567 *)
load_strings(g) ==
    LET w == g.window IN
    IF w.string1 # <<>> /\ w.string2 # <<>>
    THEN reset_machine(g, w.string1 \o <<"#">> \o w.string2)
    ELSE g

----------------------------------------------------------------------------
(* Inputs. *)

Str1(a) == <<a>>
Join(s1, s2) == s1 \o <<"#">> \o s2

WellFormed == {Join(s1, s2) : s1 \in StrsUpTo(MaxLen), s2 \in StrsUpTo(MaxLen)}

Repeated == {Join(Rep(c, m), Rep(c, n)) :
                 c \in {"a", "X"}, m \in 1..MaxRep, n \in 1..MaxRep}

NoSeparator == StrsUpTo(MaxLen) \cup {Rep("a", n) : n \in 0..MaxNoSep}

SeveralSeparators ==
    {Join(s1, Join(s2, s3)) : s1 \in StrsUpTo(1), s2 \in StrsUpTo(1),
                              s3 \in StrsUpTo(1)}

abc_cab == <<"a", "b", "c", "#", "c", "a", "b">>
abc_abd == <<"a", "b", "c", "#", "a", "b", "d">>
abcabc_abcabc == <<"a", "b", "c", "a", "b", "c", "#",
                   "a", "b", "c", "a", "b", "c">>
Scenarios == {abc_cab, abc_abd, abcabc_abcabc}

(* Anagrams of length 38: the machine needs 1599 steps, the budget is 1590. *)
over_budget == Join(Rep("a", 37) \o <<"b">>, <<"b">> \o Rep("a", 37))

(* Not anagrams; the machine rejects in its step number 1670, the budget.  *)
exact_budget_reject ==
    Join(Rep("a", 33) \o <<"b", "b">>,
         <<"b">> \o Rep("c", 11) \o Rep("a", 33))

(* The machine accepts in its step number 1590, the budget. *)
exact_budget_accept ==
    Join(Rep("a", 35) \o <<"b">>,
         <<"X", "X", "X", "b", "X">> \o Rep("a", 35))

LongInputs == {over_budget, exact_budget_reject, exact_budget_accept}

Inputs == WellFormed \cup Repeated \cup NoSeparator \cup SeveralSeparators
              \cup Scenarios

DriveInputs == WellFormed \cup Repeated \cup NoSeparator \cup Scenarios
                   \cup LongInputs

(* What the window is started on and what the user types into its fields. *)
GuiInputs == {<<"a", "b", "#", "b", "a">>, <<"a", "#", "b">>}
FieldChoices == {<<<<>>, <<"a">>>>, <<<<"a">>, <<"a">>>>,
                 <<<<"a", "b">>, <<"b", "a">>>>}
SliderValues == {1, default_slider, 20}

PrimInputs == {<<"a">>, <<"a", "#", "b">>}

WriteSymbols == {"_", "a"}

----------------------------------------------------------------------------
(* Actions. *)

InitOn(S) ==
    /\ input \in S
    /\ tm = TuringMachine(input)
    /\ twin = TuringMachine(input)
    /\ pc = "idle"
    /\ max_steps = 0
    /\ step_count = 0
    /\ result = [returned |-> FALSE, accepted |-> FALSE]
    /\ stepped = FALSE
    /\ runs = 0
    /\ moves = 0
    /\ writes = 0
    /\ observed = <<>>
    /\ gui = TuringMachineSimulator(input)

(* The driver calls tm.step(). *)
Step ==
    /\ observed' = <<>>
    /\ UNCHANGED gui
    /\ pc # "loop"
    /\ tm' = step(tm)
    /\ stepped' = TRUE
    /\ UNCHANGED <<input, twin, pc, max_steps, step_count, result,
                   runs, moves, writes>>

(* run() testing for a terminal state before it logs its start entry. *)
RunBeginUnloggedReturn ==
    /\ observed' = <<>>
    /\ UNCHANGED gui
    /\ pc # "loop"
    /\ runs < MaxRuns
    /\ runs' = runs + 1
    /\ IF terminal(tm)
       THEN /\ tm' = tm
            /\ pc' = "returned"
            /\ result' = [returned |-> TRUE, accepted |-> tm.state = "accept"]
            /\ UNCHANGED <<max_steps, step_count>>
       ELSE LET started == log_step(tm, <<"Starting the Turing Machine">>) IN
            /\ tm' = started
            /\ pc' = "loop"
            /\ max_steps' = step_budget(started)
            /\ step_count' = 0
            /\ result' = [returned |-> FALSE, accepted |-> FALSE]
    /\ UNCHANGED <<input, twin, stepped, moves, writes>>

(* run(), lines 115-126: the start entry, the early return, the budget. *)
RunBegin ==
    /\ observed' = <<>>
    /\ UNCHANGED gui
    /\ pc # "loop"
    /\ runs < MaxRuns
    /\ runs' = runs + 1
    /\ LET started == log_step(tm, <<"Starting the Turing Machine">>) IN
       /\ tm' = started
       /\ IF terminal(started)
          THEN /\ pc' = "returned"
               /\ result' = [returned |-> TRUE,
                             accepted |-> started.state = "accept"]
               /\ UNCHANGED <<max_steps, step_count>>
          ELSE /\ pc' = "loop"
               /\ max_steps' = step_budget(started)
               /\ step_count' = 0
               /\ result' = [returned |-> FALSE, accepted |-> FALSE]
    /\ UNCHANGED <<input, twin, stepped, moves, writes>>

(* run(), lines 128-130: one iteration of the loop. *)
RunIter ==
    /\ observed' = <<>>
    /\ UNCHANGED gui
    /\ pc = "loop"
    /\ run_continues(tm, step_count, max_steps)
    /\ tm' = step(tm)
    /\ step_count' = step_count + 1
    /\ UNCHANGED <<input, twin, pc, max_steps, result,
                   stepped, runs, moves, writes>>

(* run(), lines 132-140: leaving the loop, the guard, the return. *)
RunReturn ==
    /\ observed' = <<>>
    /\ UNCHANGED gui
    /\ pc = "loop"
    /\ ~run_continues(tm, step_count, max_steps)
    /\ tm' = budget_guard(tm, step_count, max_steps)
    /\ result' = [returned |-> TRUE, accepted |-> tm'.state = "accept"]
    /\ pc' = "returned"
    /\ UNCHANGED <<input, twin, max_steps, step_count,
                   stepped, runs, moves, writes>>

(* The driver calls tm.move(direction). *)
Move(direction) ==
    /\ observed' = <<>>
    /\ UNCHANGED gui
    /\ pc = "idle"
    /\ moves < MaxMoves
    /\ moves' = moves + 1
    /\ tm' = move(tm, direction)
    /\ UNCHANGED <<input, twin, pc, max_steps, step_count, result,
                   stepped, runs, writes>>

MoveLeft == Move("L")
MoveRight == Move("R")

(* The driver calls tm.write(symbol). *)
Write ==
    /\ observed' = <<>>
    /\ UNCHANGED gui
    /\ pc = "idle"
    /\ writes < MaxWrites
    /\ writes' = writes + 1
    /\ \E symbol \in WriteSymbols : tm' = write(tm, symbol)
    /\ UNCHANGED <<input, twin, pc, max_steps, step_count, result,
                   stepped, runs, moves>>

(* The second engine is driven by step() alone until it is terminal. *)
TwinStep ==
    /\ pc = "returned"
    /\ ~terminal(twin)
    /\ twin' = step(twin)
    /\ UNCHANGED <<input, tm, pc, max_steps, step_count, result,
                   stepped, runs, moves, writes, observed, gui>>

(* The second engine is stepped independently of the first. *)
TwinAdvance ==
    /\ ~terminal(twin)
    /\ twin' = step(twin)
    /\ UNCHANGED <<input, tm, pc, max_steps, step_count, result,
                   stepped, runs, moves, writes, observed, gui>>

(* read() with a head-advancing side effect, as a stream read has. *)
after_read_advancing(m) == move(m, "R")

(* The engine after read(), lines 49-51: nothing is assigned. *)
after_read(m) == m

(* The driver calls tm.read() and looks at state, tape and head. *)
Inspect ==
    /\ pc # "loop"
    /\ observed' = Append(observed,
           [symbol |-> read(tm), state |-> tm.state, tape |-> tm.tape,
            head_position |-> tm.head_position, engine |-> tm])
    /\ Len(observed) < MaxInspections
    /\ UNCHANGED gui
    /\ tm' = after_read(tm)
    /\ UNCHANGED <<input, twin, pc, max_steps, step_count, result,
                   stepped, runs, moves, writes>>


(* The session of the window: its widgets, its machine, the machine's     *)
(* input.                                                                 *)
session(event) ==
    [window |-> event_start(gui, event), machine |-> tm, tape_string |-> input]

(* One handled event ends in the session g. *)
Handled(g) ==
    /\ gui' = g.window
    /\ tm' = g.machine
    /\ input' = g.tape_string
    /\ twin' = IF g.tape_string = input THEN twin ELSE TuringMachine(g.tape_string)
    /\ UNCHANGED <<pc, max_steps, step_count, result,
                   stepped, runs, moves, writes, observed>>

(* The user clicks Step: simulator_ui.py line 313. *)
ClickStep ==
    /\ gui.step_enabled
    /\ Handled(do_step(session("step")))

(* The timer fires: simulator_ui.py line 123. *)
TimerTick ==
    /\ gui.timer_active
    /\ Handled(auto_step(session("tick")))

(* The user clicks the checkable Auto button, which flips its checked     *)
(* state and then calls toggle_auto: lines 359-360.                       *)
ClickAuto ==
    LET checked == [session("auto").window EXCEPT !.auto_checked = ~gui.auto_checked]
    IN  /\ gui' = toggle_auto(checked)
        /\ UNCHANGED <<input, tm, twin, pc, max_steps, step_count, result,
                       stepped, runs, moves, writes, observed>>

(* The user clicks Reset: line 336; clicked passes checked = False. *)
ClickReset ==
    /\ gui.reset_enabled
    /\ Handled(reset_machine(session("reset"), <<>>))

(* The user clicks Load: line 222. *)
ClickLoad ==
    /\ gui.load_enabled
    /\ Handled(load_strings(session("load")))

(* The user moves the speed slider: line 368. *)
ChangeSpeed ==
    \E speed_value \in SliderValues :
        /\ speed_value # gui.slider
        /\ Handled([session("speed") EXCEPT
                        !.window = update_speed(session("speed").window,
                                                speed_value)])

(* The user types into the two text fields (no handler is connected). *)
EditFields ==
    \E fields \in FieldChoices :
        /\ <<gui.string1, gui.string2>> # fields
        /\ gui' = [gui EXCEPT !.string1 = fields[1], !.string2 = fields[2]]
        /\ UNCHANGED <<input, tm, twin, pc, max_steps, step_count, result,
                       stepped, runs, moves, writes, observed>>

(* One engine, driven by step() and run(). *)
Init == InitOn(Inputs)
Next == Step \/ RunBegin \/ RunIter \/ RunReturn
Spec == Init /\ [][Next]_vars

(* Two engines from one input: tm driven by one run(), twin by step(). *)
InitDrive == InitOn(DriveInputs)
NextDrive == RunBegin \/ RunIter \/ RunReturn \/ TwinStep
SpecDrive == InitDrive /\ [][NextDrive]_vars

(* One engine, driven by step(), run() and the primitives; the driver   *)
(* uses the primitives before it hands the engine to run().             *)
InitPrim == InitOn(PrimInputs)
NextPrim == Step \/ RunBegin \/ RunIter \/ RunReturn
                \/ MoveLeft \/ MoveRight \/ Write
SpecPrim == InitPrim /\ [][NextPrim]_vars

(* One engine driven by step() and run(), inspected between the calls. *)
InitInspect == InitOn(WellFormed \cup NoSeparator)
NextInspect == Step \/ RunBegin \/ RunIter \/ RunReturn \/ Inspect
SpecInspect == InitInspect /\ [][NextInspect]_vars

(* Two engines from one input, each stepped on its own: every pair of    *)
(* configurations the input can reach.                                   *)
InitPair == InitOn(WellFormed \cup NoSeparator)
NextPair == Step \/ TwinAdvance
SpecPair == InitPair /\ [][NextPair]_vars

(* One engine on a well-formed input, driven by step() alone; the driver *)
(* keeps calling step() for as long as a call changes anything.          *)
InitLive == InitOn(WellFormed \cup Scenarios)
NextLive == Step
SpecLive == InitLive /\ [][NextLive]_vars /\ WF_vars(Step)

(* The window on its machine: every event the user and the timer can    *)
(* raise.                                                                *)
InitGui == InitOn(GuiInputs)
NextGui == ClickStep \/ TimerTick \/ ClickAuto \/ ClickReset \/ ClickLoad
               \/ ChangeSpeed \/ EditFields
SpecGui == InitGui /\ [][NextGui]_vars

(* The same window with timer ticks that keep arriving while the timer  *)
(* is active.                                                            *)
SpecGuiLive == InitGui /\ [][NextGui]_vars /\ WF_vars(TimerTick)

(* The general algorithm on repeated-character inputs: tm is built by    *)
(* lines 16-28 alone and driven by step(); twin is what the constructor  *)
(* makes of the same input.                                              *)
InitGeneral ==
    /\ input \in Repeated
    /\ tm = initial_engine(input)
    /\ twin = TuringMachine(input)
    /\ pc = "idle"
    /\ max_steps = 0
    /\ step_count = 0
    /\ result = [returned |-> FALSE, accepted |-> FALSE]
    /\ stepped = FALSE
    /\ runs = 0
    /\ moves = 0
    /\ writes = 0
    /\ observed = <<>>
    /\ gui = TuringMachineSimulator(input)
NextGeneral == Step
SpecGeneral == InitGeneral /\ [][NextGeneral]_vars

----------------------------------------------------------------------------
(* Vocabulary of the properties. *)

well_formed(s) == Count(s, "#") = 1

sep_index(s) == CHOOSE k \in 1..Len(s) : s[k] = "#"
first_string(s) == SubSeq(s, 1, sep_index(s) - 1)
second_string(s) == SubSeq(s, sep_index(s) + 1, Len(s))

letters(s) == {s[i] : i \in 1..Len(s)}
anagrams(s1, s2) ==
    \A c \in letters(s1) \cup letters(s2) : Count(s1, c) = Count(s2, c)

last_entry(m) == m.steps_log[Len(m.steps_log)]

starting == <<"Starting the Turing Machine">>
exceeded == <<"Exceeded maximum steps - potential infinite loop detected">>
no_separator ==
    <<"Reached end of tape without finding separator - ensure input has a # separator">>

(* The tape as it was when the latest run() started: the snapshot of its *)
(* 'Starting' entry.                                                     *)
run_start_tape(m) ==
    LET k == CHOOSE i \in 1..Len(m.steps_log) :
                 /\ m.steps_log[i].description = starting
                 /\ \A j \in (i + 1)..Len(m.steps_log) :
                        m.steps_log[j].description # starting
    IN  m.steps_log[k].tape

exceeded_logged(m) ==
    Len(m.steps_log) > 0 /\ last_entry(m).description = exceeded

(* Some transition of the machine itself (not the budget guard) set a    *)
(* terminal state: every such transition logs an entry after setting it. *)
own_verdict(m) ==
    \E i \in 1..Len(m.steps_log) :
        /\ m.steps_log[i].state \in {"accept", "reject"}
        /\ m.steps_log[i].description # exceeded

Fresh == ~stepped /\ runs = 0 /\ moves = 0 /\ writes = 0

----------------------------------------------------------------------------
(* C1: for every pair of payload strings, the engine built from s1#s2 and *)
(* driven by run() returns accepted = true exactly when s1 and s2 are     *)
(* anagrams.  (SpecDrive: tm is driven by run() alone.)                   *)
AcceptsIffAnagram ==
    (result.returned /\ well_formed(input))
        => (result.accepted
              <=> anagrams(first_string(input), second_string(input)))

(* C2: for every well-formed input, the engine stepped until terminal and *)
(* the engine driven by one run() end in the same state with the same     *)
(* tape.  (SpecDrive: twin is stepped, tm is run.)                        *)
RunEqualsStepping ==
    (result.returned /\ terminal(twin) /\ well_formed(input))
        => (tm.state = twin.state /\ tm.tape = twin.tape)

(* C3: run() invokes step() at most B times, B = min(100000, 10 x the     *)
(* tape length when run() started), and when it returns the state is      *)
(* accept or reject.                                                      *)
RunTerminatesInBudget ==
    runs > 0 =>
        LET B == Min(100000, 10 * Len(run_start_tape(tm))) IN
        /\ step_count <= B
        /\ result.returned => terminal(tm)

(* C3 witness: a run that used up its whole budget and was forced out. *)
BudgetExhausted ==
    /\ result.returned
    /\ input = over_budget
    /\ step_count = 10 * Len(run_start_tape(tm))
    /\ tm.state = "reject"
    /\ exceeded_logged(tm)
    /\ ~own_verdict(tm)

(* C4: when run() returns, the 'Exceeded maximum steps' entry has been    *)
(* appended exactly when the machine did not reach accept or reject by a  *)
(* transition of its own.                                                 *)
ExceededOnlyWhenUndecided ==
    result.returned => (exceeded_logged(tm) <=> ~own_verdict(tm))

(* C5: the constructor leaves the engine terminal exactly when the input  *)
(* is c^m # c^n with m, n >= 1; then the state is accept iff m = n, one   *)
(* trace entry is recorded, tape and head are the initial ones; any other *)
(* input gives the scanning state and an empty trace.                     *)
repeated_pair(s) ==
    /\ Count(s, "#") = 1
    /\ s[1] # "#" /\ s[Len(s)] # "#"
    /\ \A i, j \in 1..Len(s) : (s[i] # "#" /\ s[j] # "#") => s[i] = s[j]

FastPathExactly ==
    Fresh =>
        /\ tm.tape = Rep("_", 5) \o input \o Rep("_", Max(20, Len(input)))
        /\ tm.head_position = 5
        /\ terminal(tm) <=> repeated_pair(input)
        /\ repeated_pair(input) =>
              /\ tm.state = "accept" <=> 2 * sep_index(input) = Len(input) + 1
              /\ Len(tm.steps_log) = 1
        /\ ~repeated_pair(input) =>
              /\ tm.state = "scan to separator"
              /\ tm.steps_log = <<>>

(* C5 witness: a freshly constructed engine the shortcut has rejected. *)
FastPathRejected ==
    Fresh /\ tm.state = "reject" /\ repeated_pair(input)

(* C6: for every input c^m # c^n the verdict of the constructor's         *)
(* shortcut equals the verdict the transitions reach on the same tape.    *)
(* (SpecGeneral: tm runs the transitions, twin is the constructed one.)   *)
FastPathAgrees ==
    terminal(tm) => tm.state = twin.state

(* C7: through the general algorithm, abc#cab ends in accept, abc#abd in  *)
(* reject and abcabc#abcabc in accept.                                    *)
expected_verdict(s) == IF s = abc_abd THEN "reject" ELSE "accept"

ScenarioVerdicts ==
    input \in Scenarios =>
        /\ twin.state = "scan to separator" /\ twin.steps_log = <<>>
        /\ terminal(tm) => tm.state = expected_verdict(input)
        /\ result.returned =>
               (result.accepted <=> expected_verdict(input) = "accept")

(* C7 witness: run() has returned on the repeated three-letter scenario. *)
ScenarioAccepted ==
    input = abcabc_abcabc /\ result.returned /\ result.accepted

(* C8: '#' ends in accept, and '#' + s2 is accepted only if s2 is empty. *)
EmptyFirstString ==
    (well_formed(input) /\ input[1] = "#" /\ terminal(tm))
        => (tm.state = "accept" <=> Len(input) = 1)

(* C9: on an input without '#', run() returns reject with the 'no         *)
(* separator' trace entry and the head never leaves the tape; the scan    *)
(* rejects on a blank only at index 15 or beyond and passes every blank   *)
(* before it.                                                             *)
NoSeparatorRejects ==
    Count(input, "#") = 0 =>
        /\ tm.head_position >= 0 /\ tm.head_position < Len(tm.tape)
        /\ tm.state \in {"scan to separator", "reject"}
        /\ tm.state = "reject" =>
              /\ tm.head_position >= 15
              /\ read(tm) = "_"
              /\ \E i \in 1..Len(tm.steps_log) :
                     /\ tm.steps_log[i].description = no_separator
                     /\ tm.steps_log[i].state = "reject"
        /\ tm.state = "scan to separator" =>
              /\ tm.head_position <= Max(15, 5 + Len(input))
              /\ \A h \in 15..(tm.head_position - 1) : tm.tape[h + 1] # "_"
        /\ result.returned =>
              /\ tm.state = "reject" /\ ~result.accepted
              /\ ~exceeded_logged(tm)

(* C9 witness: run() rejected a one-letter input at index 15, after the   *)
(* scan passed the blanks at 6..14.                                       *)
NoSeparatorRejected ==
    /\ input = <<"a">>
    /\ result.returned /\ tm.state = "reject"
    /\ tm.head_position = 15
    /\ tm.tape[15] = "_"

(* C10: the head is always a valid index of the tape, and move('L') at    *)
(* index 0 leaves it at 0.                                                *)
HeadInRange ==
    /\ [](tm.head_position >= 0 /\ tm.head_position < Len(tm.tape))
    /\ [][MoveLeft =>
            tm'.head_position =
                IF tm.head_position = 0 THEN 0 ELSE tm.head_position - 1]_vars

(* C10 witness: six move('L') calls on a fresh engine, the sixth at 0. *)
ClampedAtZero ==
    /\ ~stepped /\ runs = 0 /\ writes = 0
    /\ moves = 6
    /\ tm.head_position = 0

(* C11: the tape never shrinks; its length changes only in a move('R'),   *)
(* exactly when the head after the move is >= len(tape) - 10, and then    *)
(* 100 blanks are appended and the existing cells are left as they were.  *)
TapeGrowsOnlyByBlock ==
    [][LET old == tm.tape
           new == tm'.tape
       IN  /\ Len(new) >= Len(old)
           /\ (MoveLeft \/ Write \/ RunBegin \/ RunReturn) => Len(new) = Len(old)
           /\ MoveRight =>
                 new = IF tm.head_position + 1 >= Len(old) - 10
                       THEN old \o [i \in 1..100 |-> "_"]
                       ELSE old
           /\ Len(new) # Len(old) =>
                 /\ Len(new) = Len(old) + 100
                 /\ tm'.head_position >= Len(old) - 10
                 /\ \A i \in (Len(old) + 1)..Len(new) : new[i] = "_"
                 /\ \A i \in 1..Len(old) :
                        i # tm.head_position + 1 => new[i] = old[i]]_vars

(* C11 witness: a move('R') of the driver has just grown the tape. *)
GrownByMove ==
    /\ moves > 0
    /\ Len(tm.tape) = Len(twin.tape) + 100
    /\ tm.head_position = Len(twin.tape) - 10

(* C12: a fresh engine has 5 blanks, the input, max(20, len(input))       *)
(* blanks on its tape, the head at index 5, no remembered separator       *)
(* position and, unless the shortcut fired, the scanning state.           *)
FreshLayout ==
    Fresh =>
        /\ Len(tm.tape) = 5 + Len(input) + Max(20, Len(input))
        /\ \A i \in 1..Len(tm.tape) :
               tm.tape[i] = IF i > 5 /\ i <= 5 + Len(input)
                            THEN input[i - 5] ELSE "_"
        /\ tm.head_position = 5
        /\ tm.separator_position = NoPosition
        /\ tm.steps_log = <<>> => tm.state = "scan to separator"
        /\ tm.state = "scan to separator" \/ repeated_pair(input)

(* C12 witness: a fresh engine whose input is longer than 20. *)
FreshLongInput ==
    Fresh /\ Len(input) > 20 /\ tm.state = "scan to separator"

(* C13: for a well-formed input every tape cell always holds a symbol of  *)
(* the alphabet, and the cells that differ from the initial tape hold     *)
(* '$', '*' or 'X'.                                                       *)
tape_alphabet ==
    {"a", "b", "c", "d", "X", "_", "#", "$", "*"}

OnlyAlphabetSymbols ==
    well_formed(input) =>
        /\ \A i \in 1..Len(tm.tape) : tm.tape[i] \in tape_alphabet
        /\ Len(tm.tape) = Len(twin.tape)
        /\ \A i \in 1..Len(tm.tape) :
               tm.tape[i] # twin.tape[i] => tm.tape[i] \in {"$", "*", "X"}

(* C13 witness: an accepted tape carrying all three marks. *)
AllMarksWritten ==
    /\ well_formed(input) /\ tm.state = "accept"
    /\ \E i, j, k \in 1..Len(tm.tape) :
           /\ tm.tape[i] = "*" /\ twin.tape[i] # "*"
           /\ tm.tape[j] = "$" /\ twin.tape[j] = "#"
           /\ tm.tape[k] = "X" /\ twin.tape[k] \in {"a", "b"}

(* C14: run() on an engine already in accept or reject performs no step,  *)
(* leaves state, tape, head and separator position as they are, appends   *)
(* the one 'Starting' entry and returns the verdict of that state.        *)
RunOnTerminalEngine ==
    [][(RunBegin /\ terminal(tm)) =>
          /\ tm' = [tm EXCEPT !.steps_log = Append(tm.steps_log,
                        [state |-> tm.state, description |-> starting,
                         tape |-> tm.tape, head |-> tm.head_position])]
          /\ pc' = "returned"
          /\ step_count' = step_count
          /\ result' = [returned |-> TRUE, accepted |-> tm.state = "accept"]]_vars

(* C14 witness: run() has returned with its start entry as the last one. *)
RanOnTerminalEngine ==
    /\ result.returned /\ runs = 1
    /\ terminal(tm)
    /\ last_entry(tm).description = starting

(* C15: when run() has returned the last trace entry records the final    *)
(* terminal state, and every engine in accept or reject has as its last   *)
(* entry one recorded after that state was set.                           *)
records_verdict(m) ==
    terminal(m) => (Len(m.steps_log) > 0 /\ last_entry(m).state = m.state)

LastEntryRecordsVerdict ==
    /\ records_verdict(tm)
    /\ records_verdict(twin)
    /\ result.returned =>
           /\ terminal(tm)
           /\ last_entry(tm).state = IF result.accepted THEN "accept" ELSE "reject"

(* C15 witness: a run accepted by the final check of the second string. *)
AcceptedRunLogged ==
    /\ result.returned /\ result.accepted
    /\ last_entry(tm).description =
           <<"All characters matched, strings are anagrams!">>
    /\ last_entry(tm).state = "accept"

(* C16: the trace is append-only; a step() on a non-terminal engine adds  *)
(* exactly one group and the start of run() adds one group.               *)
OneGroupPerStep ==
    [][/\ Len(tm'.steps_log) >= Len(tm.steps_log)
       /\ SubSeq(tm'.steps_log, 1, Len(tm.steps_log)) = tm.steps_log
       /\ ((Step \/ RunIter) /\ ~terminal(tm)) =>
              Len(tm'.steps_log) = Len(tm.steps_log) + 1
       /\ RunBegin => Len(tm'.steps_log) = Len(tm.steps_log) + 1]_vars

(* C17: every step() changes the head position by at most one cell. *)
HeadMovesOneCell ==
    [][(Step \/ RunIter) =>
          /\ tm'.head_position - tm.head_position <= 1
          /\ tm.head_position - tm'.head_position <= 1]_vars

(* C18: a step() changes at most one tape cell, the one under the head    *)
(* when the step began; every other existing cell keeps its content.      *)
StepWritesUnderHead ==
    [][\A i \in 1..Len(tm.tape) :
           i # tm.head_position + 1 => tm'.tape[i] = tm.tape[i]]_vars

(* C18 witness: the separator has been overwritten and the head is        *)
(* elsewhere.                                                             *)
SeparatorMarked ==
    /\ tm.separator_position # NoPosition
    /\ tm.separator_position # tm.head_position
    /\ tm.tape[tm.separator_position + 1] = "$"
    /\ twin.tape[tm.separator_position + 1] = "#"

(* C19: two configurations with the same control state and the same       *)
(* symbol under the head take the same transition: same next state, same  *)
(* written symbol, same head motion.                                      *)
outcome(m) ==
    LET n == step(m) IN
    [state   |-> n.state,
     written |-> IF n.tape[m.head_position + 1] # read(m)
                 THEN <<n.tape[m.head_position + 1]>> ELSE <<>>,
     motion  |-> n.head_position - m.head_position]

TransitionIsFunction ==
    (~terminal(tm) /\ ~terminal(twin)
        /\ tm.state = twin.state /\ read(tm) = read(twin))
      => outcome(tm) = outcome(twin)

(* C20: read() returns the symbol under the head and an inspection        *)
(* changes nothing: whatever the driver read since the last step()/run()  *)
(* is what the engine still holds.                                        *)
InspectionHasNoEffect ==
    \A k \in 1..Len(observed) :
        /\ observed[k].engine = tm
        /\ observed[k].symbol = tm.tape[tm.head_position + 1]
        /\ observed[k].state = tm.state
        /\ observed[k].tape = tm.tape
        /\ observed[k].head_position = tm.head_position

(* C20 witness: two inspections in a row of an engine that has stepped. *)
InspectedTwice ==
    Len(observed) = 2 /\ stepped /\ tm.state = "find match"

(* C21: in the scanning state reading '#', one step() overwrites the cell *)
(* with '$', remembers its index as the separator position, moves the     *)
(* head one cell to the left and enters 'find first char'.                *)
SeparatorStepMovesLeft ==
    [][((Step \/ RunIter) /\ well_formed(input)
           /\ tm.state = "scan to separator" /\ read(tm) = "#") =>
          /\ tm'.tape = [tm.tape EXCEPT ![tm.head_position + 1] = "$"]
          /\ tm'.separator_position = tm.head_position
          /\ tm'.head_position = tm.head_position - 1
          /\ tm'.state = "find first char"]_vars

(* C22: in the matching state with pivot c, a blank leads to reject, 'X'  *)
(* or any symbol other than c moves the head right in the same state, and *)
(* c is overwritten with 'X' and the search for the next pivot resumes;   *)
(* the cell marked is the leftmost cell of string 2 that still holds c.   *)
MatchingTransitions ==
    [][((Step \/ RunIter) /\ well_formed(input) /\ tm.state = "find match") =>
          LET c == tm.original_char
              h == tm.head_position
              symbol == read(tm)
          IN  /\ symbol = "_" =>
                    /\ tm'.state = "reject"
                    /\ tm'.tape = tm.tape /\ tm'.head_position = h
              /\ (symbol = "X" \/ symbol \notin {c, "_"}) =>
                    /\ tm'.state = "find match"
                    /\ tm'.head_position = h + 1
                    /\ tm'.tape = tm.tape
              /\ symbol = c =>
                    /\ tm'.tape = [tm.tape EXCEPT ![h + 1] = "X"]
                    /\ tm'.state = "find first char"
                    /\ \A i \in (tm.separator_position + 2)..h :
                           tm.tape[i] # c]_vars

(* C23: in 'check second string', reading 'X' moves the head right in the *)
(* same state, reading a blank leads to accept, any other symbol leads to *)
(* reject, and none of these transitions writes to the tape.              *)
FinalCheckTransitions ==
    [][((Step \/ RunIter) /\ tm.state = "check second string") =>
          LET symbol == read(tm) IN
          /\ \A i \in 1..Len(tm.tape) : tm'.tape[i] = tm.tape[i]
          /\ symbol = "X" =>
                /\ tm'.state = "check second string"
                /\ tm'.head_position = tm.head_position + 1
          /\ symbol = "_" =>
                /\ tm'.state = "accept"
                /\ tm'.head_position = tm.head_position
          /\ symbol \notin {"X", "_"} =>
                /\ tm'.state = "reject"
                /\ tm'.head_position = tm.head_position]_vars

(* C23 witness: the final check has passed over a matched cell and        *)
(* accepted at the blank behind it.                                       *)
PassedOverMatched ==
    /\ tm.state = "accept"
    /\ last_entry(tm).description =
           <<"All characters matched, strings are anagrams!">>
    /\ tm.head_position > tm.separator_position + 1
    /\ tm.tape[tm.head_position] = "X"
    /\ read(tm) = "_"

(* C24: for every well-formed input the machine is in 'check second       *)
(* string' only with every cell of string 1 holding '*', and when accept  *)
(* is reached by a transition the tape between the paddings reads '*' in  *)
(* every cell of string 1, '$' at the separator and 'X' in every cell of  *)
(* string 2.                                                              *)
accepted_by_transition(m) ==
    /\ m.state = "accept"
    /\ last_entry(m).description =
           <<"All characters matched, strings are anagrams!">>

FullyMarkedBeforeAccept ==
    well_formed(input) =>
        LET k == sep_index(input) IN
        /\ tm.state = "check second string" =>
               \A i \in 1..(k - 1) : tm.tape[padding_left + i] = "*"
        /\ accepted_by_transition(tm) =>
               /\ \A i \in 1..(k - 1) : tm.tape[padding_left + i] = "*"
               /\ tm.tape[padding_left + k] = "$"
               /\ \A i \in (k + 1)..Len(input) : tm.tape[padding_left + i] = "X"
               /\ \A i \in 1..Len(tm.tape) :
                      (i <= padding_left \/ i > padding_left + Len(input))
                          => tm.tape[i] = "_"

(* C24 witness: two passes completed and the final check accepted. *)
AcceptedAfterTwoPasses ==
    /\ well_formed(input)
    /\ Len(first_string(input)) = 2
    /\ accepted_by_transition(tm)
    /\ tm.head_position = padding_left + Len(input)

(* C25: marks are permanent and progress is monotonic: a cell holding     *)
(* '*', 'X' or '$' is changed by no later step, the number of marked      *)
(* cells never decreases, choosing a pivot marks exactly one new cell of  *)
(* string 1 and finding its match marks exactly one new cell of string 2, *)
(* and there are at most len(string 1) passes.                            *)
cells_holding(tape, symbols) == {i \in 1..Len(tape) : tape[i] \in symbols}

MarksArePermanent ==
    [][well_formed(input) =>
          LET k == sep_index(input)
              cell == tm.head_position + 1
              marks == {"*", "X", "$"}
          IN  /\ \A i \in cells_holding(tm.tape, marks) : tm'.tape[i] = tm.tape[i]
              /\ Cardinality(cells_holding(tm'.tape, marks))
                     >= Cardinality(cells_holding(tm.tape, marks))
              /\ Cardinality(cells_holding(tm'.tape, {"*"})) <= k - 1
              /\ (tm.state = "find first char" /\ tm'.state = "find match") =>
                     /\ cell \in (padding_left + 1)..(padding_left + k - 1)
                     /\ cell \notin cells_holding(tm.tape, marks)
                     /\ cells_holding(tm'.tape, {"*"})
                            = cells_holding(tm.tape, {"*"}) \cup {cell}
              /\ (tm.state = "find match" /\ tm'.state = "find first char") =>
                     /\ cell \in (padding_left + k + 1)..(padding_left + Len(input))
                     /\ cell \notin cells_holding(tm.tape, marks)
                     /\ cells_holding(tm'.tape, {"X"})
                            = cells_holding(tm.tape, {"X"}) \cup {cell}]_vars

(* C26: driven by step() alone, without a step budget, every well-formed  *)
(* input reaches accept or reject after finitely many steps.              *)
SteppingTerminates == <>terminal(tm)

(* C26 witness: the longest scenario stepped to its verdict. *)
LongScenarioDecided ==
    /\ input = abcabc_abcabc
    /\ stepped /\ runs = 0
    /\ tm.state = "accept"

(* C27: the remembered separator position is unset until the '#' is       *)
(* found, is assigned in the step that overwrites '#' with '$', never     *)
(* changes afterwards and is always the index of the only '$' cell, so a  *)
(* jump to it lands on '$'.                                               *)
separator_cached(m) ==
    IF m.separator_position = NoPosition
    THEN cells_holding(m.tape, {"$"}) = {}
    ELSE /\ cells_holding(m.tape, {"$"}) = {m.separator_position + 1}
         /\ goto_separator_ok(m)
         /\ read(goto_separator(m)) = "$"

separator_assigned_once ==
    LET cell == tm.head_position + 1 IN
    /\ tm.separator_position # NoPosition =>
           tm'.separator_position = tm.separator_position
    /\ (tm.separator_position = NoPosition
            /\ tm'.separator_position # NoPosition) =>
           /\ tm.state = "scan to separator" /\ read(tm) = "#"
           /\ tm'.tape[cell] = "$"
           /\ tm'.separator_position = tm.head_position
    /\ (tm.tape[cell] = "#" /\ tm'.tape[cell] = "$") =>
           tm'.separator_position = tm.head_position

SeparatorRemembered ==
    [](separator_cached(tm)) /\ [][separator_assigned_once]_vars

(* C27 witness: the second pass has jumped to the remembered separator    *)
(* and moved on to string 2.                                              *)
JumpLandedOnSeparator ==
    /\ well_formed(input)
    /\ tm.state = "find match"
    /\ Cardinality(cells_holding(tm.tape, {"*"})) = 2
    /\ tm.head_position = tm.separator_position + 1
    /\ tm.tape[tm.separator_position + 1] = "$"

(* C28: accept and reject are absorbing under step(): a step() on an      *)
(* engine in accept or reject changes neither state, tape, head,          *)
(* separator position nor trace log, and returns the unchanged head       *)
(* position.                                                              *)
HaltedIsAbsorbing ==
    [][(Step /\ terminal(tm)) =>
          /\ tm' = tm
          /\ step_result(tm) = tm.head_position]_vars

(* C28 witness: step() has been called on an engine that the constructor  *)
(* had already decided.                                                   *)
SteppedWhenHalted ==
    /\ repeated_pair(input)
    /\ stepped /\ runs = 0
    /\ terminal(tm)
    /\ Len(tm.steps_log) = 1

(* C29: run() never overrides a verdict of the transitions: if a step()   *)
(* executed inside run() set the state to accept, run() returns accepted  *)
(* = true and the state stays accept.                                     *)
AcceptIsNotOverridden ==
    (result.returned
        /\ \E i \in 1..Len(tm.steps_log) : tm.steps_log[i].state = "accept")
      => (result.accepted /\ tm.state = "accept")

(* C30: for every well-formed input the tape keeps its initial length     *)
(* 5 + len(input) + max(20, len(input)) throughout step() and run(), and  *)
(* the head stays more than 10 cells away from the tape end.              *)
keeps_initial_length(m) ==
    /\ Len(m.tape) = 5 + Len(input) + Max(20, Len(input))
    /\ m.head_position < Len(m.tape) - 10

TapeNeverGrows ==
    well_formed(input) => (keeps_initial_length(tm) /\ keeps_initial_length(twin))

(* C30 witness: run() has taken the head of a long input to the blank     *)
(* behind string 2.                                                       *)
ReachedEndOfLongInput ==
    /\ well_formed(input)
    /\ Len(input) > 20
    /\ runs = 1
    /\ tm.head_position = padding_left + Len(input)
    /\ read(tm) = "_"

(* C31: for every well-formed input the '*' cells are a contiguous prefix *)
(* of the cells of string 1 (each pivot is the leftmost unmarked          *)
(* character), '*' is never written at or right of the separator and 'X'  *)
(* is never written at or left of it.                                     *)
stars_are_prefix ==
    well_formed(input) =>
        \E j \in 0..(sep_index(input) - 1) :
            cells_holding(tm.tape, {"*"}) = (padding_left + 1)..(padding_left + j)

marks_on_their_side ==
    well_formed(input) =>
        LET separator == padding_left + sep_index(input) IN
        /\ \A i \in 1..Len(tm.tape) :
               tm'.tape[i] # tm.tape[i] =>
                   /\ tm'.tape[i] = "*" => i < separator
                   /\ tm'.tape[i] = "X" => i > separator
        /\ (tm.state = "find first char" /\ tm'.state = "find match") =>
               /\ tm'.tape[tm.head_position + 1] = "*"
               /\ \A i \in (padding_left + 1)..tm.head_position : tm.tape[i] = "*"

MarksInOrder == [](stars_are_prefix) /\ [][marks_on_their_side]_vars

(* C31 witness: two passes done on an input without a supplied 'X'. *)
TwoPassesDone ==
    /\ well_formed(input) /\ "X" \notin letters(input)
    /\ tm.state = "find first char"
    /\ cells_holding(tm.tape, {"*"}) = (padding_left + 1)..(padding_left + 2)
    /\ Cardinality(cells_holding(tm.tape, {"X"})) = 2

(* C32: marks stay in balance: in the pivot search, in the final check    *)
(* and in accept the machine has overwritten as many cells with '*' as    *)
(* with 'X'; in the matching state, and in a reject reached from it, it   *)
(* has overwritten one more with '*'.                                     *)
overwritten_with(m, symbol) ==
    {i \in 1..Len(m.tape) :
        /\ m.tape[i] = symbol
        /\ i <= Len(initial_engine(input).tape)
        /\ initial_engine(input).tape[i] # symbol}

no_match_rejected(m) ==
    /\ m.state = "reject"
    /\ Len(m.steps_log) > 0
    /\ last_entry(m).description = <<"No match found for", m.original_char>>

MarksInBalance ==
    LET stars == Cardinality(overwritten_with(tm, "*"))
        matched == Cardinality(overwritten_with(tm, "X"))
    IN  /\ tm.state \in {"find first char", "check second string", "accept"}
            => stars = matched
        /\ (tm.state = "find match" \/ no_match_rejected(tm))
            => stars = matched + 1

(* C32 witness: the second pivot found no match. *)
SecondPivotUnmatched ==
    /\ no_match_rejected(tm)
    /\ Cardinality(overwritten_with(tm, "*")) = 2
    /\ Cardinality(overwritten_with(tm, "X")) = 1

(* C33: markers are never confused with payload: a cell of string 2 that  *)
(* the machine skips as already matched, in the matching state or in the  *)
(* final check, is a cell the machine itself overwrote with 'X'.          *)
SkippedCellsWereMarked ==
    [][((Step \/ RunIter) /\ well_formed(input)
           /\ tm.state \in {"find match", "check second string"}
           /\ read(tm) = "X")
        => (tm.head_position + 1) \in overwritten_with(tm, "X")]_vars

(* C34: in the window, do_step() returns False exactly when the machine   *)
(* is in accept or reject after the step, and in that same call it shows  *)
(* the verdict and leaves no timer running.                               *)
DoStepReportsVerdict ==
    [][((ClickStep \/ TimerTick) /\ gui'.invoked_step) =>
          /\ gui'.returned = <<~terminal(tm')>>
          /\ terminal(tm') =>
                 /\ gui'.verdict_shown = tm'.state
                 /\ ~gui'.timer_active]_vars

(* C35: in auto-run, once the machine is in accept or reject the timer is *)
(* eventually stopped and the step, reset and load buttons are enabled    *)
(* again, and a timer tick never calls step() on a machine that is        *)
(* already in accept or reject.                                           *)
controls_released ==
    /\ ~gui.timer_active
    /\ gui.step_enabled /\ gui.reset_enabled /\ gui.load_enabled

AutoRunStops ==
    /\ (terminal(tm) /\ gui.timer_active) ~> controls_released
    /\ [][(TimerTick /\ terminal(tm)) => ~gui'.invoked_step]_vars

(* C35 witness: a tick found the machine halted and stopped the auto-run. *)
TickStoppedAutoRun ==
    /\ gui.event = "tick"
    /\ terminal(tm)
    /\ ~gui.invoked_step
    /\ controls_released

(* C36: after every handled event the timer is active exactly when the    *)
(* auto button is checked and exactly when the step, reset and load       *)
(* buttons are disabled, so no step, reset or load is handled while the   *)
(* timer drives the machine.                                              *)
controls_follow_timer ==
    /\ gui.timer_active <=> gui.auto_checked
    /\ gui.timer_active <=> ~gui.step_enabled
    /\ gui.timer_active <=> ~gui.reset_enabled
    /\ gui.timer_active <=> ~gui.load_enabled

TimerOwnsMachine ==
    /\ [](controls_follow_timer)
    /\ [][(ClickStep \/ ClickReset \/ ClickLoad) => ~gui.timer_active]_vars

(* C36 witness: the timer has just driven a step while the buttons are    *)
(* disabled.                                                              *)
TimerDroveStep ==
    /\ gui.event = "tick" /\ gui.invoked_step
    /\ gui.timer_active /\ gui.auto_checked
    /\ ~gui.step_enabled /\ ~gui.reset_enabled /\ ~gui.load_enabled

====
